---- MODULE Spec2Model ----
(***************************************************************************)
(* SafeYatri dashboard: the alert store and real-time synchronisation      *)
(* layer of the front end (SocketProvider in contexts/SocketContext.tsx),  *)
(* the session it depends on (AuthProvider) and the alert panel that       *)
(* issues lifecycle commands (AlertPanel / AlertCard).                     *)
(*                                                                         *)
(* One client session is modelled.  The backend and the other sessions are *)
(* the environment: they appear as the socket events the client receives.  *)
(* Real numbers are scaled to integers: a confidence is a percentage       *)
(* (0.8 is 80) and a coordinate is in hundredths of a degree.              *)
(* An optional number is a set: {} when the field is absent or is not a    *)
(* number, {n} when it is the number n.  An optional string is the string  *)
(* Undefined when absent.                                                  *)
(***************************************************************************)
EXTENDS Integers, Sequences, FiniteSets, TLC

VARIABLES
    user,              \* AuthProvider: useState<User | null>
    socket,            \* SocketProvider: useState<Socket | null>
    connected,         \* SocketProvider: useState(false)
    alerts,            \* SocketProvider: useState<Alert[]>([])
    touristLocations,  \* SocketProvider: useState<TouristLocation[]>([])
    systemStatus,      \* SocketProvider: useState<SystemStatus>({...})
    chan,              \* state of the socket the effect made last
    nOpen,             \* number of sockets made by io() and not closed
    captured,          \* socket/connected as closed over by the handlers of that socket
    localStorage,      \* the keys AuthProvider keeps in the browser's localStorage
    out                \* what the last handler or call did that is visible outside the store

vars == <<user, socket, connected, alerts, touristLocations, systemStatus,
          chan, nOpen, captured, localStorage, out>>

----------------------------------------------------------------------------
(* Bound of the model *)

MaxAlerts == 2       \* creation events are accepted while the store is shorter than this

----------------------------------------------------------------------------
(* Values *)

Undefined == "undefined"

AlertTypes == {"violence", "anomaly", "geofence", "panic", "missing"}
Severities == {"low", "medium", "high", "critical"}
Statuses == {"pending", "reviewing", "dispatched", "resolved", "false_positive"}
Roles == {"admin", "dispatcher", "police", "tourism_officer", "auditor"}

\* Values of the state socket: null, the socket the effect made last, an earlier one.
NullSocket == "null"
Current == "current"
Earlier == "earlier"

NoUser == [id |-> Undefined, role |-> Undefined]

\* The accounts the backend can answer a login with.
Users ==
    { [id |-> "off_001", role |-> "dispatcher"],
      [id |-> "off_003", role |-> "admin"],
      [id |-> "pol_007", role |-> "police"],
      [id |-> "tou_004", role |-> "tourism_officer"],
      [id |-> "aud_009", role |-> "auditor"] }

\* Ids the backend assigns to the alerts it announces with new_alert.
ServerIds == {"a1", "a2"}

Val(o) == CHOOSE x \in o : TRUE

\* a ?? b
Nullish(a, b) == IF a # {} THEN a ELSE b

----------------------------------------------------------------------------
(* Event payloads the backend can send *)

NoLocation == [present |-> FALSE, lat |-> {}, lng |-> {}, latitude |-> {},
               longitude |-> {}, address |-> Undefined]

NoDetails == [present |-> FALSE, confidence |-> {}, severity |-> Undefined,
              location |-> NoLocation, camera_id |-> Undefined,
              tourist_ids |-> <<>>, evidence |-> Undefined,
              description |-> Undefined]

NullPayload == [isNull |-> TRUE, type |-> Undefined, timestamp |-> {},
                details |-> NoDetails]

\* { details: { confidence: 0.92, severity: "high", location: {lat: 28.65, lng: 77.23},
\*              camera_id: "cam_004", description: "Violence detected" } }
ScenarioAPayload ==
    [isNull |-> FALSE, type |-> Undefined, timestamp |-> {},
     details |-> [NoDetails EXCEPT !.present = TRUE, !.confidence = {92},
                     !.severity = "high",
                     !.location = [NoLocation EXCEPT !.present = TRUE,
                                      !.lat = {2865}, !.lng = {7723}],
                     !.camera_id = "cam_004",
                     !.description = "Violence detected"]]

\* { } : every optional field left out
BarePayload ==
    [isNull |-> FALSE, type |-> Undefined, timestamp |-> {}, details |-> NoDetails]

\* { type: "panic", timestamp: <earlier>, details: { severity: "critical",
\*   location: {latitude, longitude}, tourist_ids: ["t1"] } }
PanicPayload ==
    [isNull |-> FALSE, type |-> "panic", timestamp |-> {0},
     details |-> [NoDetails EXCEPT !.present = TRUE, !.severity = "critical",
                     !.location = [NoLocation EXCEPT !.present = TRUE,
                                      !.latitude = {2861}, !.longitude = {7720}],
                     !.tourist_ids = <<"t1">>]]

AlertPayloads == {NullPayload, ScenarioAPayload, BarePayload, PanicPayload}

\* tourist_violence_alert: { location, camera_id?, tourist_id, tourist_name? }
NullTouristPayload ==
    [isNull |-> TRUE, location |-> NoLocation, camera_id |-> Undefined,
     tourist_id |-> Undefined, tourist_name |-> Undefined,
     severity |-> Undefined, confidence |-> {}]

TouristPayloads ==
    { NullTouristPayload,
      [NullTouristPayload EXCEPT !.isNull = FALSE,
          !.location = [NoLocation EXCEPT !.present = TRUE, !.lat = {2865}, !.lng = {7723}],
          !.camera_id = "cam_004", !.tourist_id = "t1", !.tourist_name = "Asha"],
      [NullTouristPayload EXCEPT !.isNull = FALSE, !.tourist_id = "t2",
          !.severity = "critical", !.confidence = {100}] }

\* The record the backend holds for the alert it calls id: what new_alert announces.
ServerAlert(id) ==
    [id |-> id,
     type |-> IF id = "a1" THEN "violence" ELSE "geofence",
     severity |-> IF id = "a1" THEN "critical" ELSE "medium",
     confidence |-> IF id = "a1" THEN 95 ELSE 60,
     timestamp |-> 0,
     location |-> [lat |-> 2865, lng |-> 7723, address |-> "Red Fort"],
     camera_id |-> "cam_004",
     tourist_ids |-> <<"t1">>,
     evidence |-> Undefined,
     status |-> "pending",
     assigned_to |-> Undefined,
     description |-> "Reported by backend"]

NewAlertRecords == {ServerAlert(id) : id \in ServerIds}

\* alert_updated: the backend's record with its authoritative status and assignee.
UpdatedAlert(id, status, assignee) ==
    [ServerAlert(id) EXCEPT !.status = status, !.assigned_to = assignee]

\* The (status, assignee) pairs of the lifecycle updates the backend sends.
Authoritative ==
    { <<"pending", Undefined>>, <<"reviewing", Undefined>>,
      <<"dispatched", "off_001">>, <<"dispatched", "off_003">>,
      <<"resolved", "off_001">>, <<"false_positive", Undefined>> }

UpdatedAlerts == { UpdatedAlert(id, x[1], x[2]) : id \in ServerIds, x \in Authoritative }

----------------------------------------------------------------------------
(* What a handler or call does besides updating the store *)

\* op: the handler or call that ran last; id, status, assignedTo: the alert (or camera)
\* and lifecycle values it was about; emit: the command it put on a socket ("none" when
\* it put nothing) and socket: which one; signals: the toasts, console diagnostics and
\* uncaught exceptions it raised; input: the payload an inbound handler was called with.
Out(op, id, status, assignedTo, emit, sock, signals) ==
    [op |-> op, id |-> id, status |-> status, assignedTo |-> assignedTo,
     emit |-> emit, socket |-> sock, signals |-> signals, input |-> Undefined]

\* The handler of an inbound event, called with payload.
Handled(o, payload) == [o EXCEPT !.input = payload]

\* A handler that emits nothing.
Quiet(op, id, status, signals) ==
    Out(op, id, status, Undefined, "none", NullSocket, signals)

----------------------------------------------------------------------------
(* Pure parts of the handlers *)

\* `${Date.now()}_${Math.random().toString(36).slice(2, 8)}`; r stands for the random part
LocalId(t, r) == ToString(t) \o "_" \o ToString(r)

\* loc.lat ?? loc.latitude ?? 0, loc.lng ?? loc.longitude ?? 0
MapLocation(loc, withAddress) ==
    [lat |-> Val(Nullish(Nullish(loc.lat, loc.latitude), {0})),
     lng |-> Val(Nullish(Nullish(loc.lng, loc.longitude), {0})),
     address |-> IF withAddress THEN loc.address ELSE Undefined]

\* x || d on an optional string
OrElse(x, d) == IF x = Undefined THEN d ELSE x

\* Mutant: severity and confidence are copied from the details without defaults.
MapAlertWithoutDefaults(payload, t, r) ==
    LET details == payload.details
    IN  [id |-> LocalId(t, r),
         type |-> OrElse(payload.type, "violence"),
         severity |-> details.severity,
         confidence |-> IF details.confidence # {} THEN Val(details.confidence)
                        ELSE -1,
         timestamp |-> IF payload.timestamp # {} THEN Val(payload.timestamp) ELSE t,
         location |-> MapLocation(details.location, TRUE),
         camera_id |-> details.camera_id,
         tourist_ids |-> details.tourist_ids,
         evidence |-> details.evidence,
         status |-> "pending",
         assigned_to |-> Undefined,
         description |-> OrElse(details.description, "Alert received")]

\* The Alert the 'alert' handler builds from a payload that is not null.
MapAlert(payload, t, r) ==
    LET details == payload.details
    IN  [id |-> LocalId(t, r),
         type |-> OrElse(payload.type, "violence"),
         severity |-> OrElse(details.severity, "high"),
         confidence |-> IF details.confidence # {} THEN Val(details.confidence)
                        ELSE 80,
         timestamp |-> IF payload.timestamp # {} THEN Val(payload.timestamp) ELSE t,
         location |-> MapLocation(details.location, TRUE),
         camera_id |-> details.camera_id,
         tourist_ids |-> details.tourist_ids,
         evidence |-> details.evidence,
         status |-> "pending",
         assigned_to |-> Undefined,
         description |-> OrElse(details.description, "Alert received")]

\* The Alert the 'tourist_violence_alert' handler builds from a payload that is not null.
MapTouristViolenceAlert(payload, t, r) ==
    [id |-> LocalId(t, r),
     type |-> "violence",
     severity |-> "high",
     confidence |-> 90,
     timestamp |-> t,
     location |-> MapLocation(payload.location, FALSE),
     camera_id |-> payload.camera_id,
     tourist_ids |-> IF payload.tourist_id # Undefined THEN <<payload.tourist_id>>
                     ELSE <<>>,
     evidence |-> Undefined,
     status |-> "pending",
     assigned_to |-> Undefined,
     description |-> IF payload.tourist_name = Undefined
                     THEN "Violence detected near tourist"
                     ELSE "Violence detected near tourist " \o payload.tourist_name]

\* Mutant: the new alert is put in front of the empty list the effect's render saw.
PrependToStale(alert, prev) == <<alert>>

\* Mutant: the new alert is put behind the alerts of the store.
PrependBehind(alert, prev) == Append(prev, alert)

\* setAlerts(prev => [mapped, ...prev])
Prepend(alert, prev) == <<alert>> \o prev

\* Mutant: the update drops the matching alerts instead of replacing them.
ReplaceByIdDropping(updatedAlert, prev) ==
    SelectSeq(prev, LAMBDA alert : alert.id # updatedAlert.id)

\* Mutant: the update is merged into the matching alert, which keeps its local status.
ReplaceByIdKeepingStatus(updatedAlert, prev) ==
    [i \in DOMAIN prev |->
        IF prev[i].id = updatedAlert.id
        THEN [updatedAlert EXCEPT !.status = prev[i].status]
        ELSE prev[i]]

\* Mutant: only the status of the update is taken over, { ...alert, status }.
ReplaceByIdStatusOnly(updatedAlert, prev) ==
    [i \in DOMAIN prev |->
        IF prev[i].id = updatedAlert.id
        THEN [prev[i] EXCEPT !.status = updatedAlert.status]
        ELSE prev[i]]

\* Mutant: the updated alert is moved to the front of the store.
ReplaceByIdMovingToFront(updatedAlert, prev) ==
    IF \E i \in DOMAIN prev : prev[i].id = updatedAlert.id
    THEN <<updatedAlert>> \o SelectSeq(prev, LAMBDA alert : alert.id # updatedAlert.id)
    ELSE prev

\* Mutant: an update that names no assignee keeps the assignee of the alert it replaces.
ReplaceByIdRetainingAssignee(updatedAlert, prev) ==
    [i \in DOMAIN prev |->
        IF prev[i].id = updatedAlert.id
        THEN IF updatedAlert.assigned_to = Undefined
             THEN [updatedAlert EXCEPT !.assigned_to = prev[i].assigned_to]
             ELSE updatedAlert
        ELSE prev[i]]

\* prev.map(alert => alert.id === updatedAlert.id ? updatedAlert : alert)
ReplaceById(updatedAlert, prev) ==
    [i \in DOMAIN prev |-> IF prev[i].id = updatedAlert.id THEN updatedAlert ELSE prev[i]]

\* The toast new_alert shows for a severity.
NewAlertToast(severity) ==
    CASE severity = "critical" -> {"toast.error"}
      [] severity = "high" -> {"toast.error"}
      [] severity = "medium" -> {"toast"}
      [] OTHER -> {}

----------------------------------------------------------------------------
(* State after the providers mount, nobody logged in *)

Init ==
    /\ user = NoUser
    /\ socket = NullSocket
    /\ connected = FALSE
    /\ alerts = <<>>
    /\ touristLocations = <<>>
    /\ systemStatus = [cameras_online |-> 0, cameras_total |-> 0, tourists_active |-> 0,
                       alerts_pending |-> 0, system_health |-> "healthy"]
    /\ chan = "none"
    /\ nOpen = 0
    /\ captured = [socket |-> NullSocket, connected |-> FALSE]
    /\ localStorage = {}
    /\ out = Quiet("mount", Undefined, Undefined, {})

store == <<alerts, touristLocations, systemStatus>>
session == <<user, socket, chan, nOpen, captured, localStorage>>

----------------------------------------------------------------------------
(* Session: AuthProvider.login / logout and the effect of SocketProvider on [user] *)

\* The effect body for a user: io() makes a socket, the handlers registered on it close
\* over the socket and connected of the render that ran the effect, setSocket(newSocket).
OpenSocket ==
    /\ chan' = "connecting"
    /\ nOpen' = nOpen + 1
    /\ captured' = [socket |-> IF socket = NullSocket THEN NullSocket ELSE Earlier,
                    connected |-> connected]
    /\ socket' = Current

\* Mutant: the effect returns no cleanup, the socket stays as it is.
CloseSocketMissing ==
    /\ chan' = chan
    /\ nOpen' = nOpen
    /\ connected' = connected

\* The effect's cleanup, newSocket.close(): a socket that was connected reports
\* 'disconnect' to its handler as it closes.
CloseSocket ==
    /\ chan' = "closed"
    /\ nOpen' = nOpen - 1
    /\ connected' = IF chan = "connected" THEN FALSE ELSE connected

\* The keys login stores and logout removes.
Tokens == {"access_token", "refresh_token"}

\* What POST /api/auth/login can answer: an error, a demand for the second factor, or
\* the tokens and the account.
LoginResponses ==
    {[error |-> TRUE, requires_two_factor |-> FALSE, user |-> NoUser]}
    \cup {[error |-> FALSE, requires_two_factor |-> b, user |-> u] :
            b \in BOOLEAN, u \in Users}

\* The value login returns (requiresTwoFactor is absent, so falsy, where it is FALSE).
LoginResult(resp) ==
    IF resp.error THEN [success |-> FALSE, requiresTwoFactor |-> FALSE]
    ELSE IF resp.requires_two_factor THEN [success |-> FALSE, requiresTwoFactor |-> TRUE]
    ELSE [success |-> TRUE, requiresTwoFactor |-> FALSE]

\* Mutant: the tokens are stored and the user set before requires_two_factor is read.
loginStoringFirst(resp) ==
    IF resp.error
    THEN UNCHANGED <<user, localStorage, socket, chan, nOpen, captured>>
    ELSE /\ localStorage' = localStorage \cup Tokens
         /\ user' = resp.user
         /\ OpenSocket

\* AuthProvider.login on the response resp: only a response without error and without
\* requires_two_factor stores the tokens and sets the user (setUser(userData)), and
\* the effect of SocketProvider runs for the new user.
login(resp) ==
    IF resp.error \/ resp.requires_two_factor
    THEN UNCHANGED <<user, localStorage, socket, chan, nOpen, captured>>
    ELSE /\ localStorage' = localStorage \cup Tokens
         /\ user' = resp.user
         /\ OpenSocket

\* LoginPage.handleSubmit: the form is shown only while there is no user; it awaits
\* login and toasts on a demand for the second factor or on a failure.
HandleSubmit(resp) ==
    /\ user = NoUser
    /\ login(resp)
    /\ out' = Handled(Quiet("login",
                            IF LoginResult(resp).success THEN resp.user.id ELSE Undefined,
                            Undefined,
                            IF resp.error THEN {"toast.error"} ELSE {"toast.success"}),
                      [response |-> resp, result |-> LoginResult(resp)])
    /\ UNCHANGED <<connected, store>>

\* login succeeds with account u (setUser(userData)); the effect runs for the new user.
Login(u) ==
    HandleSubmit([error |-> FALSE, requires_two_factor |-> FALSE, user |-> u])

\* logout (setUser(null)); the cleanup of the effect runs.
Logout ==
    /\ user # NoUser
    /\ user' = NoUser
    /\ localStorage' = localStorage \ Tokens
    /\ CloseSocket
    /\ out' = Quiet("logout", Undefined, Undefined,
                    IF chan = "connected" THEN {"toast.success", "toast.error"}
                    ELSE {"toast.success"})
    /\ UNCHANGED <<socket, captured, store>>

----------------------------------------------------------------------------
(* Connection events of the socket the effect made last *)

\* An event of the backend reaches the handlers only over a connected socket.
Live == chan = "connected"

\* newSocket.on('connect'): first connection or a reconnection
OnConnect ==
    /\ chan \in {"connecting", "disconnected"}
    /\ chan' = "connected"
    /\ connected' = TRUE
    /\ out' = Quiet("connect", Undefined, Undefined, {"toast.success"})
    /\ UNCHANGED <<user, socket, nOpen, captured, localStorage, store>>

\* Mutant: losing the connection also empties the alerts.
OnDisconnectClearing ==
    /\ Live
    /\ chan' = "disconnected"
    /\ connected' = FALSE
    /\ alerts' = <<>>
    /\ out' = Quiet("disconnect", Undefined, Undefined, {"toast.error"})
    /\ UNCHANGED <<user, socket, nOpen, captured, localStorage, touristLocations, systemStatus>>

\* newSocket.on('disconnect'): the transport dropped
OnDisconnect ==
    /\ Live
    /\ chan' = "disconnected"
    /\ connected' = FALSE
    /\ out' = Quiet("disconnect", Undefined, Undefined, {"toast.error"})
    /\ UNCHANGED <<user, socket, nOpen, captured, localStorage, store>>

----------------------------------------------------------------------------
(* Alert events *)

\* newSocket.on('alert'); t is what Date.now() and new Date() read, r the random part
OnAlert(payload, t, r) ==
    /\ Live
    /\ IF payload.isNull
       THEN /\ out' = Handled(Quiet("alert", Undefined, Undefined, {"console.error"}),
                                  payload)
            /\ UNCHANGED alerts
       ELSE /\ Len(alerts) < MaxAlerts
            /\ alerts' = Prepend(MapAlert(payload, t, r), alerts)
            /\ out' = Handled(Quiet("alert", LocalId(t, r), "pending", {}), payload)
    /\ UNCHANGED <<touristLocations, systemStatus, connected, session>>

\* newSocket.on('tourist_violence_alert')
OnTouristViolenceAlert(payload, t, r) ==
    /\ Live
    /\ IF payload.isNull
       THEN /\ out' = Handled(Quiet("tourist_violence_alert", Undefined, Undefined,
                                        {"console.error"}), payload)
            /\ UNCHANGED alerts
       ELSE /\ Len(alerts) < MaxAlerts
            /\ alerts' = Prepend(MapTouristViolenceAlert(payload, t, r), alerts)
            /\ out' = Handled(Quiet("tourist_violence_alert", LocalId(t, r), "pending",
                                        {}), payload)
    /\ UNCHANGED <<touristLocations, systemStatus, connected, session>>

\* newSocket.on('new_alert'): the record is prepended, then the toast is built from
\* alert.type.toUpperCase(), which throws on a record that has no type
OnNewAlert(alert) ==
    /\ Live
    /\ Len(alerts) < MaxAlerts
    /\ alerts' = Prepend(alert, alerts)
    /\ out' = Handled(Quiet("new_alert", alert.id, alert.status,
                            IF alert.type = Undefined THEN {"TypeError"}
                            ELSE NewAlertToast(alert.severity)), alert)
    /\ UNCHANGED <<touristLocations, systemStatus, connected, session>>

\* newSocket.on('alert_updated')
OnAlertUpdated(updatedAlert) ==
    /\ Live
    /\ alerts' = ReplaceById(updatedAlert, alerts)
    /\ out' = [Quiet("alert_updated", updatedAlert.id, updatedAlert.status, {})
                  EXCEPT !.assignedTo = updatedAlert.assigned_to,
                         !.input = updatedAlert]
    /\ UNCHANGED <<touristLocations, systemStatus, connected, session>>

----------------------------------------------------------------------------
(* Batches *)

LocationBatches ==
    { << [tourist_id |-> "t1", location |-> [lat |-> 2865, lng |-> 7723],
          timestamp |-> 0, status |-> "active"] >> }

StatusBatches ==
    { [cameras_online |-> 3, cameras_total |-> 4, tourists_active |-> 2,
       alerts_pending |-> 1, system_health |-> "warning"] }

\* newSocket.on('tourist_location_update')
OnTouristLocationUpdate(locations) ==
    /\ Live
    /\ touristLocations' = locations
    /\ out' = Handled(Quiet("tourist_location_update", Undefined, Undefined, {}),
                    locations)
    /\ UNCHANGED <<alerts, systemStatus, connected, session>>

\* Mutant: the counters of the batch are merged into the stored ones, the larger winning.
OnSystemStatusUpdateMerging(status) ==
    /\ Live
    /\ systemStatus' =
          [status EXCEPT !.cameras_online =
              IF systemStatus.cameras_online > status.cameras_online
              THEN systemStatus.cameras_online ELSE status.cameras_online]
    /\ out' = Handled(Quiet("system_status_update", Undefined, Undefined, {}), status)
    /\ UNCHANGED <<alerts, touristLocations, connected, session>>

\* newSocket.on('system_status_update')
OnSystemStatusUpdate(status) ==
    /\ Live
    /\ systemStatus' = status
    /\ out' = Handled(Quiet("system_status_update", Undefined, Undefined, {}), status)
    /\ UNCHANGED <<alerts, touristLocations, connected, session>>

----------------------------------------------------------------------------
(* Outbound commands *)

\* Mutant: the command is emitted whenever there is a socket, connected or not.
EmitUnguarded(op, sock, conn, event, id, status, assignedTo, signals) ==
    IF sock # NullSocket
    THEN Out(op, id, status, assignedTo, event, sock, signals)
    ELSE Out(op, id, status, assignedTo, "none", NullSocket, signals)

\* if (socket && connected) socket.emit(event, ...) in a closure whose render had the
\* state (sock, conn): the event put on that socket, if any
Emit(op, sock, conn, event, id, status, assignedTo, signals) ==
    IF sock # NullSocket /\ conn
    THEN Out(op, id, status, assignedTo, event, sock, signals)
    ELSE Out(op, id, status, assignedTo, "none", NullSocket, signals)

\* sendAlert(alert) as closed over a render whose state was (sock, conn)
SendAlert(op, sock, conn, alert, signals) ==
    Emit(op, sock, conn, "send_alert", Undefined, Undefined, Undefined, signals)

\* updateAlertStatus(alertId, status, assignedTo)
UpdateAlertStatus(op, alertId, status, assignedTo) ==
    Emit(op, socket, connected, "update_alert_status", alertId, status, assignedTo, {})

\* subscribeToCamera(cameraId)
SubscribeToCamera(cameraId) ==
    Emit("subscribeToCamera", socket, connected, "subscribe_camera", cameraId,
         Undefined, Undefined, {})

\* unsubscribeFromCamera(cameraId)
UnsubscribeFromCamera(cameraId) ==
    Emit("unsubscribeFromCamera", socket, connected, "unsubscribe_camera", cameraId,
         Undefined, Undefined, {})

CameraIds == {"cam_004"}

\* The partial alerts a consumer of the context hands to sendAlert.
PartialAlerts == { [type |-> "panic", severity |-> "critical"] }

\* A consumer of the context calls one of its four functions.
CallSendAlert(alert) ==
    /\ out' = SendAlert("sendAlert", socket, connected, alert, {})
    /\ UNCHANGED <<store, connected, session>>

\* Mutant: the command also records its assignee on the local copy of the alert.
CallUpdateAlertStatusAssigning(alertId, status, assignedTo) ==
    /\ out' = UpdateAlertStatus("updateAlertStatus", alertId, status, assignedTo)
    /\ alerts' = [i \in DOMAIN alerts |->
                    IF alerts[i].id = alertId
                    THEN [alerts[i] EXCEPT !.assigned_to = assignedTo]
                    ELSE alerts[i]]
    /\ UNCHANGED <<touristLocations, systemStatus, connected, session>>

\* Mutant: the command also applies its status to the local copy of the alert.
CallUpdateAlertStatusOptimistic(alertId, status, assignedTo) ==
    /\ out' = Emit("updateAlertStatus", socket, connected, "update_alert_status",
                   alertId, status, assignedTo, {})
    /\ alerts' = [i \in DOMAIN alerts |->
                    IF alerts[i].id = alertId
                    THEN [alerts[i] EXCEPT !.status = status]
                    ELSE alerts[i]]
    /\ UNCHANGED <<touristLocations, systemStatus, connected, session>>

CallUpdateAlertStatus(alertId, status, assignedTo) ==
    /\ out' = UpdateAlertStatus("updateAlertStatus", alertId, status, assignedTo)
    /\ UNCHANGED <<store, connected, session>>

CallSubscribeToCamera(cameraId) ==
    /\ out' = SubscribeToCamera(cameraId)
    /\ UNCHANGED <<store, connected, session>>

CallUnsubscribeFromCamera(cameraId) ==
    /\ out' = UnsubscribeFromCamera(cameraId)
    /\ UNCHANGED <<store, connected, session>>

\* newSocket.on('iot_band_update'): sendAlert here is the one the effect closed over
IotBandUpdates ==
    { [alert_type |-> Undefined, severity |-> Undefined, confidence |-> {},
       tourist_id |-> "t1", description |-> Undefined],
      [alert_type |-> "panic", severity |-> Undefined, confidence |-> {},
       tourist_id |-> "t1", description |-> Undefined] }

\* The partial alert the handler derives from the band's data.
IotAlert(data) ==
    [type |-> data.alert_type,
     severity |-> OrElse(data.severity, "medium"),
     confidence |-> IF data.confidence # {} /\ data.confidence # {0}
                    THEN Val(data.confidence) ELSE 80,
     tourist_ids |-> <<data.tourist_id>>,
     description |-> OrElse(data.description, "IoT Band Alert")]

OnIotBandUpdate(data) ==
    /\ Live
    /\ IF data.alert_type # Undefined
       THEN out' = Handled(SendAlert("iot_band_update", captured.socket,
                                     captured.connected, IotAlert(data),
                                     {"console.log"}), data)
       ELSE out' = Handled(Quiet("iot_band_update", Undefined, Undefined,
                                 {"console.log"}), data)
    /\ UNCHANGED <<store, connected, session>>

----------------------------------------------------------------------------
(* Alert panel: AlertPanel renders an AlertCard for each pending and reviewing alert *)

\* Mutant: any logged-in role gets the action buttons.
canDispatchAnyRole(u) == u.role # Undefined

\* const canDispatch = user?.role === 'dispatcher' || user?.role === 'admin'
canDispatch(u) == u.role = "dispatcher" \/ u.role = "admin"

\* statusMap of handleAlertAction
statusMap(action) ==
    CASE action = "review" -> "reviewing"
      [] action = "dispatch" -> "dispatched"
      [] action = "false_positive" -> "false_positive"

Actions == {"review", "dispatch", "false_positive"}

\* Mutant: the three buttons are shown whatever the status of the alert.
ButtonsForAnyStatus(alert, showActions, hasOnAction) ==
    IF ~(showActions /\ hasOnAction) THEN {}
    ELSE {"review", "dispatch", "false_positive"}

\* The buttons AlertCard shows for an alert: none unless showActions and onAction are set.
Buttons(alert, showActions, hasOnAction) ==
    IF ~(showActions /\ hasOnAction) THEN {}
    ELSE CASE alert.status = "pending" -> {"review", "dispatch", "false_positive"}
           [] alert.status = "reviewing" -> {"dispatch", "false_positive"}
           [] OTHER -> {}

\* The cards of the panel that get onAction: those of the pending and reviewing lists.
\* The dispatched list is rendered with showActions={false} and no onAction.
PanelButtons(alert, u) ==
    IF alert.status \in {"pending", "reviewing"}
    THEN Buttons(alert, canDispatch(u), canDispatch(u))
    ELSE Buttons(alert, FALSE, FALSE)

\* The operator presses a button of the card of alerts[i]: handleAlertAction. The panel
\* is part of the dashboard layout, which is rendered only for a logged-in user.
HandleAlertAction(i, action) ==
    /\ user # NoUser
    /\ i \in DOMAIN alerts
    /\ action \in PanelButtons(alerts[i], user)
    /\ out' = UpdateAlertStatus("handleAlertAction", alerts[i].id, statusMap(action), user.id)
    /\ UNCHANGED <<store, connected, session>>

----------------------------------------------------------------------------
(* The whole program, with one or two inputs of each kind *)

Rands == {0, 1}
Times == {1}

SpecAlertPayloads == {NullPayload, ScenarioAPayload}
SpecTouristPayloads == {p \in TouristPayloads : p.tourist_name = "Asha"}
SpecNewAlerts == {ServerAlert("a1")}
SpecUpdatedAlerts == {UpdatedAlert("a1", "resolved", "off_001"),
                      UpdatedAlert("a1", "pending", Undefined)}
SpecCommandStatuses == {"reviewing", "resolved"}
SpecCommandAssignees == {"off_002"}

Session ==
    \/ \E u \in Users : Login(u)
    \/ Logout
    \/ OnConnect
    \/ OnDisconnect

Next ==
    \/ Session
    \/ \E p \in SpecAlertPayloads, t \in Times, r \in Rands : OnAlert(p, t, r)
    \/ \E p \in SpecTouristPayloads, t \in Times, r \in Rands :
          OnTouristViolenceAlert(p, t, r)
    \/ \E a \in SpecNewAlerts : OnNewAlert(a)
    \/ \E a \in SpecUpdatedAlerts : OnAlertUpdated(a)
    \/ \E l \in LocationBatches : OnTouristLocationUpdate(l)
    \/ \E st \in StatusBatches : OnSystemStatusUpdate(st)
    \/ \E d \in IotBandUpdates : OnIotBandUpdate(d)
    \/ \E a \in PartialAlerts : CallSendAlert(a)
    \/ \E i \in DOMAIN alerts, st \in SpecCommandStatuses, a \in SpecCommandAssignees :
          CallUpdateAlertStatus(alerts[i].id, st, a)
    \/ \E c \in CameraIds : CallSubscribeToCamera(c)
    \/ \E c \in CameraIds : CallUnsubscribeFromCamera(c)
    \/ \E i \in DOMAIN alerts, action \in Actions : HandleAlertAction(i, action)

Spec == Init /\ [][Next]_vars

----------------------------------------------------------------------------
(* The alert lifecycle: the backend's alerts, their updates and the commands *)

CommandAssignees == {Undefined, "off_002"}

NextLifecycle ==
    \/ Session
    \/ \E a \in NewAlertRecords : OnNewAlert(a)
    \/ \E a \in UpdatedAlerts : OnAlertUpdated(a)
    \/ \E i \in DOMAIN alerts, st \in Statuses, a \in CommandAssignees :
          CallUpdateAlertStatus(alerts[i].id, st, a)
    \/ \E i \in DOMAIN alerts, action \in Actions : HandleAlertAction(i, action)

SpecLifecycle == Init /\ [][NextLifecycle]_vars

----------------------------------------------------------------------------
(* Intake: the events that create alerts, well-formed or not, in one operator's session *)

\* { details: { confidence: 1.5, severity: "severe" } } : values outside the Alert type
OutOfRangePayload ==
    [isNull |-> FALSE, type |-> Undefined, timestamp |-> {},
     details |-> [NoDetails EXCEPT !.present = TRUE, !.confidence = {150},
                     !.severity = "severe"]]

\* A new_alert record without type.
TypelessAlert == [ServerAlert("a2") EXCEPT !.type = Undefined]

\* An alert_updated record whose severity and confidence differ from those announced.
RescoredAlert ==
    [UpdatedAlert("a1", "reviewing", Undefined) EXCEPT !.severity = "low",
                                                       !.confidence = 40]

IntakeAlertPayloads == AlertPayloads \cup {OutOfRangePayload}
IntakeNewAlerts == {ServerAlert("a1"), TypelessAlert}
IntakeUpdatedAlerts == {UpdatedAlert("a1", "reviewing", Undefined), RescoredAlert}

Operator == CHOOSE u \in Users : u.role = "dispatcher"

NextIntake ==
    \/ Login(Operator)
    \/ Logout
    \/ OnConnect
    \/ OnDisconnect
    \/ \E p \in IntakeAlertPayloads, t \in Times, r \in Rands : OnAlert(p, t, r)
    \/ \E p \in TouristPayloads, t \in Times, r \in Rands : OnTouristViolenceAlert(p, t, r)
    \/ \E a \in IntakeNewAlerts : OnNewAlert(a)
    \/ \E a \in IntakeUpdatedAlerts : OnAlertUpdated(a)

SpecIntake == Init /\ [][NextIntake]_vars

----------------------------------------------------------------------------
(* Views: the dispatcher dashboard hands the context's alerts array to its components *)

\* Where a.sort((a, b) => time(b) - time(a)) leaves alert among the alerts of sorted,
\* which came before it: behind every one that is not older (the sort is stable).
InsertRecent(alert, sorted) ==
    LET notOlder == {i \in DOMAIN sorted :
                        \A j \in 1..i : sorted[j].timestamp >= alert.timestamp}
    IN  SubSeq(sorted, 1, Cardinality(notOlder)) \o <<alert>>
        \o SubSeq(sorted, Cardinality(notOlder) + 1, Len(sorted))

RECURSIVE SortRecent(_)
\* alerts.sort(...) by timestamp, latest first
SortRecent(as) ==
    IF as = <<>> THEN <<>>
    ELSE InsertRecent(as[Len(as)], SortRecent(SubSeq(as, 1, Len(as) - 1)))

\* AlertSummary renders (the overview tab of the dispatcher dashboard): recentAlerts is
\* alerts.sort(...).slice(0, 5), and sort works in place on the array it is given, which
\* is the array of the context.
RenderAlertSummary ==
    /\ user # NoUser
    /\ alerts' = SortRecent(alerts)
    /\ out' = Handled(Quiet("AlertSummary", Undefined, Undefined, {}),
                      [i \in DOMAIN alerts |-> SortRecent(alerts)[i].id])
    /\ UNCHANGED <<touristLocations, systemStatus, connected, session>>

\* IncidentWorkflow renders (the incidents tab): the queue is alerts.map(...), one row
\* for each alert in the order of the array.
RenderIncidentQueue ==
    /\ user # NoUser
    /\ out' = Handled(Quiet("IncidentWorkflow", Undefined, Undefined, {}),
                      [i \in DOMAIN alerts |-> alerts[i].id])
    /\ UNCHANGED <<store, connected, session>>

\* The selections of the incident workspace: the officers ticked for a dispatch.
OfficerSelections == { {}, {"off_002"}, {"off_001", "off_003"} }

\* IncidentWorkflow.handleDispatch with alerts[sel] selected (sel = 0: no alert, or the
\* selected id is not in the store) and officers ticked. The Dispatch Response panel,
\* and its Dispatch Now button, exist only for a selected alert that is pending or
\* reviewing.
HandleDispatch(sel, officers) ==
    /\ user # NoUser
    /\ sel \in DOMAIN alerts => alerts[sel].status \in {"pending", "reviewing"}
    /\ out' = IF sel \notin DOMAIN alerts \/ officers = {}
              THEN Handled(Quiet("handleDispatch", Undefined, Undefined, {}), officers)
              ELSE Handled(Quiet("handleDispatch", alerts[sel].id, Undefined,
                                 {"console.log", "window.alert"}), officers)
    /\ UNCHANGED <<store, connected, session>>

ViewAlertPayloads == {ScenarioAPayload, PanicPayload}

NextViews ==
    \/ Login(Operator)
    \/ Logout
    \/ OnConnect
    \/ OnDisconnect
    \/ \E p \in ViewAlertPayloads, t \in Times, r \in Rands : OnAlert(p, t, r)
    \/ \E a \in SpecNewAlerts : OnNewAlert(a)
    \/ RenderAlertSummary
    \/ RenderIncidentQueue
    \/ \E sel \in 0..Len(alerts), officers \in OfficerSelections :
          HandleDispatch(sel, officers)

SpecViews == Init /\ [][NextViews]_vars

----------------------------------------------------------------------------
(* Channel: the batches of the backend over connections that come and go *)

\* Scenario D's batch (cameras_online = 3) and one with larger counters before it.
ChannelStatusBatches ==
    StatusBatches \cup
    { [cameras_online |-> 4, cameras_total |-> 4, tourists_active |-> 5,
       alerts_pending |-> 0, system_health |-> "healthy"] }

ChannelLocationBatches ==
    LocationBatches \cup
    { <<>>,
      << [tourist_id |-> "t2", location |-> [lat |-> 2861, lng |-> 7720],
          timestamp |-> 1, status |-> "emergency"],
         [tourist_id |-> "t1", location |-> [lat |-> 2865, lng |-> 7723],
          timestamp |-> 1, status |-> "inactive"] >> }

NextChannel ==
    \/ Login(Operator)
    \/ Logout
    \/ OnConnect
    \/ OnDisconnect
    \/ \E a \in NewAlertRecords : OnNewAlert(a)
    \/ \E l \in ChannelLocationBatches : OnTouristLocationUpdate(l)
    \/ \E st \in ChannelStatusBatches : OnSystemStatusUpdate(st)

SpecChannel == Init /\ [][NextChannel]_vars

----------------------------------------------------------------------------
(* Backend: the authoritative lifecycle, which answers a command with alert_updated *)

\* The record the backend holds after a command on record: the legal edges are
\* pending -> reviewing -> dispatched -> resolved, reviewing -> resolved and
\* pending | reviewing -> false_positive; dispatch attaches the assignee; any other
\* command leaves the record as it is.
ServerTransition(record, status, assignedTo) ==
    CASE status = "reviewing" /\ record.status = "pending"
            -> [record EXCEPT !.status = "reviewing"]
      [] status = "dispatched" /\ record.status \in {"pending", "reviewing"}
            -> [record EXCEPT !.status = "dispatched", !.assigned_to = assignedTo]
      [] status = "false_positive" /\ record.status \in {"pending", "reviewing"}
            -> [record EXCEPT !.status = "false_positive"]
      [] status = "resolved" /\ record.status \in {"dispatched", "reviewing"}
            -> [record EXCEPT !.status = "resolved"]
      [] OTHER -> record

\* The backend answers the update_alert_status command the client emitted last on its
\* open socket: it applies the command to its record of the alert, which is the one it
\* announced and updated last, and broadcasts the record with alert_updated.
BackendConfirm ==
    /\ out.emit = "update_alert_status"
    /\ out.socket = socket
    /\ \E i \in DOMAIN alerts : alerts[i].id = out.id
    /\ LET i == CHOOSE i \in DOMAIN alerts : alerts[i].id = out.id
       IN  OnAlertUpdated(ServerTransition(alerts[i], out.status, out.assignedTo))

\* review(id), dispatch(id, "off_002"), resolve(id), markFalsePositive(id)
ScenarioCommands ==
    { <<"reviewing", Undefined>>, <<"dispatched", "off_002">>,
      <<"resolved", Undefined>>, <<"false_positive", Undefined>> }

NextBackend ==
    \/ Login(Operator)
    \/ Logout
    \/ OnConnect
    \/ OnDisconnect
    \/ \E a \in NewAlertRecords : OnNewAlert(a)
    \/ \E i \in DOMAIN alerts, c \in ScenarioCommands :
          CallUpdateAlertStatus(alerts[i].id, c[1], c[2])
    \/ BackendConfirm

SpecBackend == Init /\ [][NextBackend]_vars

----------------------------------------------------------------------------
(* Routes: what App renders for a path *)

Paths == {"/", "/dashboard", "/dispatcher", "/police", "/tourism", "/admin", "/auditor",
          "/login", "/other"}

\* The element of the /dashboard route for a role.
RoleDashboard(role) ==
    CASE role = "dispatcher" -> "DispatcherDashboard"
      [] role = "police" -> "PoliceDashboard"
      [] role = "tourism_officer" -> "TourismDashboard"
      [] role = "admin" -> "AdminDashboard"
      [] role = "auditor" -> "AuditorDashboard"
      [] OTHER -> "Navigate /login"

\* The element App renders at path for user u.
Route(path, u) ==
    IF u = NoUser
    THEN IF path = "/login" THEN "LoginPage" ELSE "Navigate /login"
    ELSE CASE path = "/dashboard" -> RoleDashboard(u.role)
           [] path = "/dispatcher" -> "DispatcherDashboard"
           [] path = "/police" -> "PoliceDashboard"
           [] path = "/tourism" -> "TourismDashboard"
           [] path = "/admin" -> "AdminDashboard"
           [] path = "/auditor" -> "AuditorDashboard"
           [] OTHER -> "Navigate /dashboard"

\* The browser goes to path.
Navigate(path) ==
    /\ out' = Handled(Quiet("navigate", Undefined, Undefined, {}),
                      [path |-> path, element |-> Route(path, user)])
    /\ UNCHANGED <<store, connected, session>>

NextRoutes ==
    \/ Session
    \/ \E p \in Paths : Navigate(p)

SpecRoutes == Init /\ [][NextRoutes]_vars

(* Sign-in: every answer to a login, the session it opens and the pages shown *)

NextAuth ==
    \/ \E resp \in LoginResponses : HandleSubmit(resp)
    \/ Logout
    \/ OnConnect
    \/ OnDisconnect
    \/ \E p \in Paths : Navigate(p)

SpecAuth == Init /\ [][NextAuth]_vars

----------------------------------------------------------------------------

----------------------------------------------------------------------------
(* Properties *)

Terminal == {"resolved", "false_positive"}
StatusCommandOps == {"updateAlertStatus", "handleAlertAction"}
CommandOps == StatusCommandOps \cup
              {"sendAlert", "subscribeToCamera", "unsubscribeFromCamera", "iot_band_update"}

Ids(as) == {as[i].id : i \in DOMAIN as}

\* C1: no step removes an alert from the store: the store never gets shorter and every
\* id in it stays in it, whatever the status of its alert.
NoAlertRemoved ==
    [][Len(alerts') >= Len(alerts) /\ Ids(alerts) \subseteq Ids(alerts')]_vars

\* A resolved alert is still in a store of two alerts after the session that received
\* it has been logged out.
ResolvedKeptAfterLogout ==
    /\ out.op = "logout"
    /\ Len(alerts) >= 2
    /\ \E i \in DOMAIN alerts : alerts[i].status = "resolved"

\* C2: no two alerts of the store share an id.
UniqueIds ==
    \A i, j \in DOMAIN alerts : i # j => alerts[i].id # alerts[j].id

ShowsResolved(as, id) == \A i \in DOMAIN as : as[i].id = id => as[i].status = "resolved"
ReviewIssued(o, id) == o.op \in StatusCommandOps /\ o.status = "reviewing" /\ o.id = id
ResolvedPushed(o, id) == o.op = "alert_updated" /\ o.status = "resolved" /\ o.id = id

\* C3: an authoritative update that resolves X and a local review(X) command, in either
\* order: after the second of the two the store shows X as resolved.
ResolvedUpdateWinsOverReview ==
    [][\A id \in ServerIds :
          /\ (ReviewIssued(out, id) /\ ResolvedPushed(out', id))
                => ShowsResolved(alerts', id)
          /\ (ResolvedPushed(out, id) /\ ReviewIssued(out', id))
                => ShowsResolved(alerts', id)]_vars

\* A review command has been emitted for an alert the store shows as resolved.
ReviewEmittedForResolved ==
    \E i \in DOMAIN alerts :
        /\ alerts[i].status = "resolved"
        /\ ReviewIssued(out, alerts[i].id)
        /\ out.emit = "update_alert_status"

\* C4: a step that keeps the store's length moves no alert from a terminal status to
\* another one and no alert back to pending.
NoStatusRegression ==
    [][Len(alerts') = Len(alerts) =>
          \A i \in DOMAIN alerts :
              /\ alerts[i].status \in Terminal => alerts'[i].status = alerts[i].status
              /\ alerts[i].status # "pending" => alerts'[i].status # "pending"]_vars

\* C5: updateAlertStatus(id, 'resolved') on a pending alert reports a LifecycleViolation
\* and sends nothing.
ResolveOfPendingRejected ==
    (/\ out.op = "updateAlertStatus"
     /\ out.status = "resolved"
     /\ \E i \in DOMAIN alerts : alerts[i].id = out.id /\ alerts[i].status = "pending")
    => ("LifecycleViolation" \in out.signals /\ out.emit = "none")

\* C6: a review or dispatch invocation changes the status of no alert of that id whose
\* status is resolved or false_positive.
TerminalStableUnderCommands ==
    [][(out'.op \in StatusCommandOps /\ out'.status \in {"reviewing", "dispatched"})
          => /\ Len(alerts') = Len(alerts)
             /\ \A i \in DOMAIN alerts :
                   (alerts[i].id = out'.id /\ alerts[i].status \in Terminal)
                      => alerts'[i].status = alerts[i].status]_vars

\* A dispatch command has been emitted for an alert the store shows as false_positive.
DispatchEmittedForFalsePositive ==
    \E i \in DOMAIN alerts :
        /\ alerts[i].status = "false_positive"
        /\ out.op \in StatusCommandOps
        /\ out.status = "dispatched"
        /\ out.id = alerts[i].id
        /\ out.emit = "update_alert_status"

\* C7: a command is put on a socket only by a call made while connected is true (and
\* stays true), on a channel that is connected; no other step, a reconnection included,
\* puts one there.
EmitOnlyWhileConnected ==
    [][out'.emit # "none" =>
          /\ out'.op \in CommandOps
          /\ connected /\ connected'
          /\ chan = "connected"]_vars

\* A status command was called while the channel was down and nothing was emitted.
CommandDroppedWhileDisconnected ==
    /\ out.op \in StatusCommandOps
    /\ chan = "disconnected"
    /\ ~connected
    /\ out.emit = "none"

\* C8: a command called while disconnected surfaces ChannelUnavailable.
ChannelUnavailableSurfaced ==
    (out.op \in CommandOps /\ out.op # "iot_band_update" /\ ~connected)
    => "ChannelUnavailable" \in out.signals

\* C9: an update_alert_status command with status dispatched or false_positive that
\* comes from the alert panel is emitted under a dispatcher or an admin.
PanelDispatchOnlyByAuthority ==
    (/\ out.op = "handleAlertAction"
     /\ out.emit = "update_alert_status"
     /\ out.status \in {"dispatched", "false_positive"})
    => (user.role \in {"dispatcher", "admin"} /\ out.assignedTo = user.id)

\* A dispatcher has emitted a dispatch from the panel.
DispatcherDispatched ==
    /\ out.op = "handleAlertAction"
    /\ out.emit = "update_alert_status"
    /\ out.status = "dispatched"
    /\ user.role = "dispatcher"

\* C10: an update that dispatches, to another assignee, an alert the store holds as
\* dispatched to somebody surfaces an AssigneeConflict.
AssigneeConflictSurfaced ==
    [][(/\ out'.op = "alert_updated"
        /\ out'.status = "dispatched"
        /\ \E i \in DOMAIN alerts :
              /\ alerts[i].id = out'.id
              /\ alerts[i].status = "dispatched"
              /\ alerts[i].assigned_to # Undefined
              /\ alerts[i].assigned_to # out'.assignedTo)
          => "AssigneeConflict" \in out'.signals]_vars

CreationOps == {"alert", "tourist_violence_alert", "new_alert"}
Failed(o) == o.signals \cap {"console.error", "TypeError"} # {}

\* A detection payload whose fields, where present, are of the Alert type's domains.
ValidDetection(p) ==
    /\ ~p.isNull
    /\ p.type \in AlertTypes \cup {Undefined}
    /\ p.details.severity \in Severities \cup {Undefined}
    /\ \A c \in p.details.confidence : c \in 0..100

\* A tourist_violence_alert payload that is an object.
ValidPanic(p) == ~p.isNull

\* C11: every alert the alert and tourist_violence_alert handlers create from a valid
\* event has a severity of the enumeration, a confidence in [0,1] (0..100 percent) and
\* status pending.
ValidEventsGiveCanonicalAlerts ==
    [][((out'.op = "alert" /\ ValidDetection(out'.input))
        \/ (out'.op = "tourist_violence_alert" /\ ValidPanic(out'.input)))
          => /\ Len(alerts') = Len(alerts) + 1
             /\ alerts'[1].severity \in Severities
             /\ alerts'[1].confidence \in 0..100
             /\ alerts'[1].status = "pending"]_vars

\* An alert event with empty details has created an alert with the default severity
\* and confidence.
DefaultsApplied ==
    /\ out.op = "alert"
    /\ out.input = BarePayload
    /\ alerts[1].severity = "high"
    /\ alerts[1].confidence = 80
    /\ alerts[1].status = "pending"

\* C12: an alert event that maps without error adds exactly one alert, in front of the
\* alerts already there, pending, of the payload's type or violence when it names none;
\* so n events in a row grow the store by n.
AlertEventAddsExactlyOne ==
    [][(out'.op = "alert" /\ ~Failed(out'))
          => /\ Len(alerts') = Len(alerts) + 1
             /\ Tail(alerts') = alerts
             /\ alerts'[1].status = "pending"
             /\ alerts'[1].type = IF out'.input.type = Undefined THEN "violence"
                                  ELSE out'.input.type]_vars

\* Two Scenario A events in a row have left two alerts, the last one in front.
TwoScenarioAEvents ==
    /\ out.op = "alert"
    /\ out.input = ScenarioAPayload
    /\ Len(alerts) >= 2
    /\ alerts[1].id = out.id
    /\ \A i \in {1, 2} : /\ alerts[i].type = "violence"
                          /\ alerts[i].status = "pending"
                          /\ alerts[i].confidence = 92
                          /\ alerts[i].camera_id = "cam_004"

\* C13: the alert a tourist_violence_alert creates has type panic, severity critical
\* when the payload says so and high otherwise, the payload's confidence or the default
\* 0.9, and status pending.
WearablePanicNormalized ==
    (out.op = "tourist_violence_alert" /\ ~Failed(out))
    => /\ alerts[1].type = "panic"
       /\ alerts[1].severity = IF out.input.severity = "critical" THEN "critical"
                                ELSE "high"
       /\ alerts[1].confidence = IF out.input.confidence # {}
                                  THEN Val(out.input.confidence) ELSE 90
       /\ alerts[1].status = "pending"

\* C14: alert_updated keeps the store's length and order; every entry with the update's
\* id becomes the incoming record, whole, every other entry stays as it was; an update
\* for an id the store does not hold changes nothing.
UpdateOverwritesInPlace ==
    [][out'.op = "alert_updated"
          => /\ Len(alerts') = Len(alerts)
             /\ \A i \in DOMAIN alerts :
                   alerts'[i] = IF alerts[i].id = out'.input.id THEN out'.input
                                ELSE alerts[i]]_vars

\* An update without assignee has been applied to one alert while another alert, of a
\* different id, is still dispatched to its officer.
UpdateAppliedBesideOther ==
    /\ out.op = "alert_updated"
    /\ out.input.assigned_to = Undefined
    /\ out.input.status = "reviewing"
    /\ \E i, j \in DOMAIN alerts :
          /\ alerts[i] = out.input
          /\ alerts[j].id # out.id
          /\ alerts[j].status = "dispatched"
          /\ alerts[j].assigned_to = "off_003"

\* C15: no step changes the severity or the confidence of an alert of the store.
ScoresNeverChange ==
    [][LET k == Len(alerts') - Len(alerts)
       IN  \A i \in DOMAIN alerts :
              /\ alerts'[i + k].severity = alerts[i].severity
              /\ alerts'[i + k].confidence = alerts[i].confidence]_vars

MalformedEventDiscarded ==
    [][Failed(out') => alerts' = alerts]_vars

AdapterOps == {"AlertSummary", "IncidentWorkflow"}

\* C17: a component that renders the alerts leaves the store's alert sequence as it was.
RenderingKeepsStore ==
    [][out'.op \in AdapterOps => alerts' = alerts]_vars

\* C18: after system_status_update the system status is the batch, after
\* tourist_location_update the tourist locations are the batch, whatever was stored
\* before and whatever the connection went through; the alerts and the other collection
\* stay as they were.
BatchesReplaceWholesale ==
    [][/\ out'.op = "system_status_update"
            => /\ systemStatus' = out'.input
               /\ UNCHANGED <<alerts, touristLocations>>
       /\ out'.op = "tourist_location_update"
            => /\ touristLocations' = out'.input
               /\ UNCHANGED <<alerts, systemStatus>>]_vars

\* Scenario D's batch is the system status, beside alerts and tourist locations received
\* earlier.
ScenarioDBatchStored ==
    /\ out.op = "system_status_update"
    /\ out.input.cameras_online = 3
    /\ systemStatus = out.input
    /\ alerts # <<>>
    /\ Len(touristLocations) = 2

\* C19: the disconnect handler sets connected to false, the connect handler sets it to
\* true; both leave the alerts, the tourist locations, the system status, the user and
\* the socket as they were and emit nothing.
ConnectionEventsKeepStore ==
    [][/\ out'.op = "disconnect" => ~connected'
       /\ out'.op = "connect" => connected'
       /\ out'.op \in {"connect", "disconnect"}
            => /\ UNCHANGED <<store, user, socket>>
               /\ out'.emit = "none"]_vars

\* The connection is lost and what was received is still there.
StaleButPresent ==
    /\ out.op = "disconnect"
    /\ ~connected
    /\ alerts # <<>>
    /\ touristLocations # <<>>
    /\ systemStatus.cameras_online = 3

\* C21: at most one socket is open at any moment, and none while no user is
\* authenticated: the socket of a session is closed when its user goes, before the
\* next one is made.
OneSocketPerSession ==
    /\ nOpen <= 1
    /\ user = NoUser => (nOpen = 0 /\ ~connected /\ chan \in {"none", "closed"})
    /\ user # NoUser => nOpen = 1

\* A later session has its own socket, the only one open, while the state still holds
\* the closed socket of the session before.
SecondSessionSocket ==
    /\ out.op = "login"
    /\ captured.socket = Earlier
    /\ nOpen = 1

StoreAtMount ==
    /\ alerts = <<>>
    /\ touristLocations = <<>>
    /\ systemStatus = [cameras_online |-> 0, cameras_total |-> 0, tourists_active |-> 0,
                       alerts_pending |-> 0, system_health |-> "healthy"]

\* C22: a session starts with nothing of the sessions before it: when a user has just
\* logged in, the alerts, the tourist locations and the system status are those of a
\* fresh provider.
SessionStartsEmpty ==
    out.op = "login" => StoreAtMount

\* C23: a second dispatch of an alert with the same assignee changes nothing in the
\* store: neither the repeated command, nor the repeated alert_updated for an alert
\* that is already stored as the dispatched record it carries.
SecondDispatchChangesNothing ==
    [][/\ (/\ out.op \in StatusCommandOps /\ out.status = "dispatched"
            /\ out'.op \in StatusCommandOps /\ out'.status = "dispatched"
            /\ out'.id = out.id /\ out'.assignedTo = out.assignedTo)
           => alerts' = alerts
       /\ (/\ out'.op = "alert_updated" /\ out'.status = "dispatched"
            /\ \A i \in DOMAIN alerts :
                  alerts[i].id = out'.id => alerts[i] = out'.input)
           => alerts' = alerts]_vars

\* dispatch(id, "off_002") has been emitted for an alert the store already shows as
\* dispatched to off_002.
DispatchRepeated ==
    \E i \in DOMAIN alerts :
        /\ out.op \in StatusCommandOps
        /\ out.status = "dispatched"
        /\ out.assignedTo = "off_002"
        /\ out.emit = "update_alert_status"
        /\ alerts[i].id = out.id
        /\ alerts[i].status = "dispatched"
        /\ alerts[i].assigned_to = "off_002"

OwnDashboardOnly ==
    (out.op = "navigate" /\ user # NoUser)
    => out.input.element \in
          { CASE user.role = "dispatcher" -> "DispatcherDashboard"
              [] user.role = "police" -> "PoliceDashboard"
              [] user.role = "tourism_officer" -> "TourismDashboard"
              [] user.role = "admin" -> "AdminDashboard"
              [] user.role = "auditor" -> "AuditorDashboard",
            "Navigate /dashboard", "Navigate /login" }

\* C26: a command from the alert panel is for an alert of the store whose status, when
\* the button is pressed, is pending for a review and pending or reviewing for a
\* dispatch or a false_positive; there is none for an alert that is dispatched,
\* resolved or false_positive.
PanelCommandsFollowLocalStatus ==
    [][out'.op = "handleAlertAction"
          => \E i \in DOMAIN alerts :
                /\ alerts[i].id = out'.id
                /\ out'.status = "reviewing" => alerts[i].status = "pending"
                /\ out'.status \in {"dispatched", "false_positive"}
                      => alerts[i].status \in {"pending", "reviewing"}
                /\ out'.status \in {"reviewing", "dispatched", "false_positive"}]_vars

\* A false_positive command has been emitted from the panel for an alert under review.
FalsePositiveFromReviewing ==
    \E i \in DOMAIN alerts :
        /\ out.op = "handleAlertAction"
        /\ out.status = "false_positive"
        /\ out.emit = "update_alert_status"
        /\ out.id = alerts[i].id
        /\ alerts[i].status = "reviewing"

\* C27: Dispatch Now tells the operator that the alert was dispatched only when it has
\* emitted update_alert_status with status dispatched for the selected alert.
DispatchNowDispatches ==
    (out.op = "handleDispatch" /\ "window.alert" \in out.signals)
    => (out.emit = "update_alert_status" /\ out.status = "dispatched")

\* C28: a step that invokes an outbound command leaves the alerts, the tourist
\* locations, the system status and connected as they were, connected or not; and the
\* status of an alert of the store changes only in a step that handles alert_updated
\* for its id.
CommandsLeaveStore ==
    [][/\ out'.op \in CommandOps => UNCHANGED <<store, connected>>
       /\ LET k == Len(alerts') - Len(alerts)
          IN  \A i \in DOMAIN alerts :
                 alerts'[i + k].status # alerts[i].status
                    => (out'.op = "alert_updated" /\ out'.id = alerts[i].id)]_vars

\* A resolve command has been emitted and the store still shows the alert as pending.
EmittedButStillPending ==
    \E i \in DOMAIN alerts :
        /\ out.op = "updateAlertStatus"
        /\ out.status = "resolved"
        /\ out.emit = "update_alert_status"
        /\ out.id = alerts[i].id
        /\ alerts[i].status = "pending"

\* C29: an iot_band_update that carries alert_type and arrives over the connected
\* channel emits send_alert on the session's socket.
IotAlertForwarded ==
    (out.op = "iot_band_update" /\ out.input.alert_type # Undefined /\ connected)
    => (out.emit = "send_alert" /\ out.socket = socket)

\* C30: a login answered with requires_two_factor returns {success: false,
\* requiresTwoFactor: true}; an attempt that does not succeed stores no token, sets no
\* user and opens no socket; while there is no user no token is stored, no socket is
\* open and every path shows the login page or redirects to it; and a user appears
\* only by a login that succeeds.
FailedLoginKeepsOut ==
    [][/\ (out'.op = "login" /\ ~out'.input.response.error
           /\ out'.input.response.requires_two_factor)
          => out'.input.result = [success |-> FALSE, requiresTwoFactor |-> TRUE]
       /\ (out'.op = "login" /\ (out'.input.response.error
                                  \/ out'.input.response.requires_two_factor))
          => /\ ~out'.input.result.success
             /\ user' = NoUser
             /\ localStorage' \cap Tokens = {}
             /\ nOpen' = 0
             /\ socket' = socket
             /\ \A p \in Paths : Route(p, user') \in {"LoginPage", "Navigate /login"}
       /\ (user' = NoUser) => (localStorage' \cap Tokens = {} /\ nOpen' = 0)
       /\ (user = NoUser /\ user' # NoUser)
          => (out'.op = "login" /\ out'.input.result.success)]_vars

\* The second factor was demanded after an earlier session ended: there is no user, no
\* token and no open socket.
SecondFactorDemanded ==
    /\ out.op = "login"
    /\ out.input.result.requiresTwoFactor
    /\ user = NoUser
    /\ socket # NullSocket

====
